---------------------------- MODULE Spec2Model ----------------------------
(***************************************************************************)
(* Behavioural telemetry pipeline of SentinelX:                            *)
(*   client/baseline_builder.py         BaselineBuilder        cal_ variables  *)
(*   client/activity_shift_detector.py  ActivityShiftDetector  det_ variables  *)
(*   client/risk_engine.py              RiskEngine             risk_ variables *)
(*   client/feature_extractor.py        FeatureExtractor       fe_ variables   *)
(*                                                                         *)
(* Python floats are modelled as exact rationals <<n, d>> in lowest terms  *)
(* with d > 0, so sums, means, ratios and comparisons are computed as the  *)
(* code computes them, without rounding.  An Optional value is None (the   *)
(* empty tuple) or Some(x) (a one-element tuple).                          *)
(***************************************************************************)
EXTENDS Integers, Sequences, FiniteSets, TLC

VARIABLES
    \* BaselineBuilder
    cal_duration,      \* self.calibration_duration
    cal_history,       \* self._feature_history
    cal_baseline,      \* self._baseline            (Optional BaselineProfile)
    cal_start,         \* self._calibration_start   (Optional float)
    cal_log,           \* history variable: the update calls made while not calibrated,
                       \* since the last start of calibration, as [features, at]
    cal_op,            \* history variable: the last operation and the state it was called in
    \* ActivityShiftDetector
    det_baseline,      \* self._baseline            (Optional BaselineProfile)
    det_counter,       \* self.counter
    det_call,          \* history variable: the last compute_scores call, [features, baseline, result]
    det_seen,          \* history variable: one earlier compute_scores call, remembered
    \* RiskEngine
    risk_window,       \* self.smoothing_window
    risk_history,      \* self._risk_history (deque(maxlen=smoothing_window))
    risk_last_raw,     \* self._last_raw_risk
    risk_last_smoothed,\* self._last_smoothed_risk
    risk_log,          \* history variable: the raw risks of all compute_risk calls since
                       \* construction or reset
    risk_ret,          \* history variable: what the last operation returned
    risk_op,           \* history variable: the last operation, its argument, and whether
                       \* a reset() has discarded a non-empty history
    \* FeatureExtractor
    fe_window,         \* self.window_duration
    fe_buffer,         \* self._event_buffer
    fe_op,             \* history variable: the last operation, its argument, the last
                       \* buffered timestamp before it, the time it used, what it
                       \* returned and how many events it pruned
    \* run_simulation (main.py)
    main_pc,           \* position in the loop: "cycle", "publish" or "crashed"
    main_now,          \* the wall clock, in seconds
    main_last_send,    \* last_risk_send_time
    main_pending,      \* the payload built for this cycle's publish (Optional)
    main_cycles,       \* history variable: the number of cycles run
    main_op,           \* history variable: the last step and the outcome of its publish
    main_snapshot,     \* history variable: the pipeline state after the last cycle
    main_log,          \* history variable: per cycle, the window_end passed to the
                       \* calibrator and the number of events left in the buffer
    main_scored,       \* history variable: what compute_scores and compute_risk
                       \* returned in the last cycle (Optional)
    main_assigned,     \* history variable: how often detector.baseline was assigned
    main_sent,         \* history variable: the payloads answered with status 200
    main_first,        \* history variable: the timestamp of the first event ingested
                       \* (Optional)
    \* MockInteractionListener
    lis_queue,         \* self._queue, the kinds of the events queued
    lis_running,       \* self._running
    lis_thread,        \* the generator thread: "none", "test" (at the while test),
                       \* "sleeping" or "done"
    lis_caller         \* the thread that calls start, get_events and stop: "idle",
                       \* "started", "joining", "draining" or "stopped"

calVars  == <<cal_duration, cal_history, cal_baseline, cal_start, cal_log, cal_op>>
detVars  == <<det_baseline, det_counter, det_call, det_seen>>
riskVars == <<risk_window, risk_history, risk_last_raw, risk_last_smoothed, risk_log, risk_ret,
             risk_op>>
feVars   == <<fe_window, fe_buffer, fe_op>>
mainVars == <<main_pc, main_now, main_last_send, main_pending, main_cycles, main_op,
             main_snapshot, main_log, main_scored, main_assigned, main_sent,
             main_first>>
lisVars  == <<lis_queue, lis_running, lis_thread, lis_caller>>
vars     == <<calVars, detVars, riskVars, feVars, mainVars, lisVars>>

-----------------------------------------------------------------------------
(* Optional values *)
None    == <<>>
Some(x) == <<x>>
Get(o)  == o[1]

-----------------------------------------------------------------------------
(* Exact rational arithmetic standing for Python float arithmetic *)
Abs(i) == IF i < 0 THEN -i ELSE i

RECURSIVE Gcd(_, _)
Gcd(a, b) == IF b = 0 THEN a ELSE Gcd(b, a % b)

\* n/d in lowest terms with a positive denominator (d # 0)
Rat(n, d) ==
    LET g == Gcd(Abs(n), Abs(d))
        s == IF d < 0 THEN -1 ELSE 1
    IN  <<(s * n) \div g, (s * d) \div g>>

R(i)       == <<i, 1>>
RAdd(a, b) == Rat(a[1] * b[2] + b[1] * a[2], a[2] * b[2])
RSub(a, b) == Rat(a[1] * b[2] - b[1] * a[2], a[2] * b[2])
RMul(a, b) == Rat(a[1] * b[1], a[2] * b[2])
\* a / b, for b # 0 (the callers test the divisor: Python raises ZeroDivisionError)
RDiv(a, b) == Rat(a[1] * b[2], a[2] * b[1])
RLt(a, b)  == a[1] * b[2] < b[1] * a[2]
RLe(a, b)  == a[1] * b[2] <= b[1] * a[2]
RGt(a, b)  == RLt(b, a)
RIsZero(a) == a[1] = 0
RAbs(a)    == <<Abs(a[1]), a[2]>>
RMin(a, b) == IF RLt(b, a) THEN b ELSE a
RMax(a, b) == IF RLt(a, b) THEN b ELSE a

RECURSIVE RSum(_)
RSum(s) == IF s = <<>> THEN R(0) ELSE RAdd(s[1], RSum(Tail(s)))

-----------------------------------------------------------------------------
(* Data classes *)

\* FeatureVector(...)
FeatureVector(speed, idle, focus, wstart, wend) ==
    [avg_typing_speed   |-> speed,
     avg_idle_duration  |-> idle,
     focus_loss_count   |-> focus,
     avg_mouse_speed    |-> R(0),
     inter_key_interval |-> R(0),
     window_start       |-> wstart,
     window_end         |-> wend]

\* BaselineProfile(...)
BaselineProfile(speed, idle, focus) ==
    [avg_typing_speed |-> speed, avg_idle_duration |-> idle, avg_focus_rate |-> focus]

\* AnomalyScores(...)
AnomalyScores(ib, fi, bd, ov) ==
    [idle_burst |-> ib, focus_instability |-> fi, behavioral_drift |-> bd, overall |-> ov]

-----------------------------------------------------------------------------
(* Bounds of the model *)
MaxTime    == 3     \* update and start_calibration times are 0..MaxTime
MaxUpdates == 4     \* update calls per calibration that the model follows

Times == {R(t) : t \in 0..MaxTime}

\* calibration_duration values a BaselineBuilder is constructed with
CalDurations == {R(-1), R(0), R(2)}

\* the feature vectors fed to the calibrator
CalFeatures ==
    {FeatureVector(R(120), R(2), 0, R(-30), R(30)),
     FeatureVector(R(60),  R(1), 1, R(0),   R(0))}

-----------------------------------------------------------------------------
(* BaselineBuilder *)

\* the default profile of _build_baseline
DefaultProfile == BaselineProfile(R(150), R(2), Rat(1, 2))

Column(history, field) == [i \in 1..Len(history) |-> history[i][field]]

\* _build_baseline with an all-zero profile for an empty history
build_baseline_zero_default(history) ==
    IF history = <<>>
    THEN BaselineProfile(R(0), R(0), R(0))
    ELSE LET n  == Len(history)
             w0 == RSub(history[1].window_end, history[1].window_start)
             w  == IF RLe(w0, R(0)) THEN R(30) ELSE w0
         IN  BaselineProfile(
                 RDiv(RSum(Column(history, "avg_typing_speed")), R(n)),
                 RDiv(RSum(Column(history, "avg_idle_duration")), R(n)),
                 RMul(RDiv(RSum([i \in 1..n |-> R(history[i].focus_loss_count)]), R(n)),
                      RDiv(R(60), w)))

\* _build_baseline taking the window duration from the last vector of the history
build_baseline_last_window(history) ==
    IF history = <<>>
    THEN DefaultProfile
    ELSE LET n  == Len(history)
             w0 == RSub(history[n].window_end, history[n].window_start)
             w  == IF RLe(w0, R(0)) THEN R(30) ELSE w0
         IN  BaselineProfile(
                 RDiv(RSum(Column(history, "avg_typing_speed")), R(n)),
                 RDiv(RSum(Column(history, "avg_idle_duration")), R(n)),
                 RMul(RDiv(RSum([i \in 1..n |-> R(history[i].focus_loss_count)]), R(n)),
                      RDiv(R(60), w)))

\* _build_baseline, as a function of the history: the profile it stores
build_baseline(history) ==
    IF history = <<>>
    THEN DefaultProfile
    ELSE LET window_count == Len(history)
             total_typing_speed  == RSum(Column(history, "avg_typing_speed"))
             total_idle_duration == RSum(Column(history, "avg_idle_duration"))
             total_focus_loss    == RSum([i \in 1..Len(history) |->
                                            R(history[i].focus_loss_count)])
             avg_focus_per_window == RDiv(total_focus_loss, R(window_count))
             wd0 == RSub(history[1].window_end, history[1].window_start)
             window_duration == IF RLe(wd0, R(0)) THEN R(30) ELSE wd0
         IN  BaselineProfile(RDiv(total_typing_speed, R(window_count)),
                             RDiv(total_idle_duration, R(window_count)),
                             RMul(avg_focus_per_window, RDiv(R(60), window_duration)))

\* start_calibration(start_time)
start_calibration(start_time) ==
    /\ cal_history'  = <<>>
    /\ cal_baseline' = None
    /\ cal_start'    = Some(start_time)

\* update with the early return of a calibrated builder left out
update_no_return(features, current_time) ==
    LET start == IF cal_start = None THEN current_time ELSE Get(cal_start)
    IN  /\ cal_start' = Some(start)
        /\ IF RLe(RSub(current_time, start), cal_duration)
           THEN /\ cal_history'  = Append(cal_history, features)
                /\ cal_baseline' = cal_baseline
           ELSE /\ cal_baseline' = Some(build_baseline(cal_history))
                /\ cal_history'  = <<>>

\* update with the freezing call's vector appended before the baseline is built
update_counts_last(features, current_time) ==
    IF cal_baseline # None
    THEN UNCHANGED <<cal_history, cal_baseline, cal_start>>
    ELSE LET start == IF cal_start = None THEN current_time ELSE Get(cal_start)
             hist  == IF cal_start = None THEN <<>> ELSE cal_history
         IN  /\ cal_start' = Some(start)
             /\ IF RLe(RSub(current_time, start), cal_duration)
                THEN /\ cal_history'  = Append(hist, features)
                     /\ cal_baseline' = None
                ELSE /\ cal_baseline' = Some(build_baseline(Append(hist, features)))
                     /\ cal_history'  = <<>>

\* update(features, current_time)
update(features, current_time) ==
    IF cal_baseline # None
    THEN UNCHANGED <<cal_history, cal_baseline, cal_start>>
    ELSE \* start_calibration(current_time) when no calibration was started
         LET start == IF cal_start = None THEN current_time ELSE Get(cal_start)
             hist  == IF cal_start = None THEN <<>> ELSE cal_history
         IN  /\ cal_start' = Some(start)
             /\ IF RLe(RSub(current_time, start), cal_duration)
                THEN /\ cal_history'  = Append(hist, features)
                     /\ cal_baseline' = None
                ELSE \* _build_baseline(): stores the profile, clears the history
                     /\ cal_baseline' = Some(build_baseline(hist))
                     /\ cal_history'  = <<>>

\* reset that forgets to clear the calibration start
reset_keeps_start ==
    /\ cal_history'  = <<>>
    /\ cal_baseline' = None
    /\ cal_start'    = cal_start

\* reset()
reset ==
    /\ cal_history'  = <<>>
    /\ cal_baseline' = None
    /\ cal_start'    = None

is_calibrated == cal_baseline # None

\* the operation `name` called with (f, t) in the current state
CalOp(name, f, t) ==
    [op |-> name, features |-> f, at |-> t,
     history |-> cal_history, baseline |-> cal_baseline, start |-> cal_start]

\* a call of update(features, at_time)
CalUpdate ==
    \E f \in CalFeatures, t \in Times :
        /\ Len(cal_log) < MaxUpdates
        /\ update(f, t)
        /\ cal_log' = IF is_calibrated THEN cal_log
                      ELSE Append(cal_log, [features |-> f, at |-> t])
        /\ cal_op'  = CalOp("update", Some(f), Some(t))
        /\ UNCHANGED cal_duration

\* a call of start_calibration(start_time)
CalStart ==
    \E t \in Times :
        /\ start_calibration(t)
        /\ cal_log' = <<>>
        /\ cal_op'  = CalOp("start_calibration", None, Some(t))
        /\ UNCHANGED cal_duration

\* a call of reset()
CalReset ==
    /\ reset
    /\ cal_log' = <<>>
    /\ cal_op'  = CalOp("reset", None, None)
    /\ UNCHANGED cal_duration

\* BaselineBuilder(calibration_duration)
CalInit ==
    /\ cal_duration \in CalDurations
    /\ cal_history  = <<>>
    /\ cal_baseline = None
    /\ cal_start    = None
    /\ cal_log      = <<>>
    /\ cal_op       = [op |-> "init", features |-> None, at |-> None,
                       history |-> <<>>, baseline |-> None, start |-> None]

-----------------------------------------------------------------------------
(* ActivityShiftDetector *)

ScoreCap    == 70    \* min(70.0, ...) of the three rules
RandomAfter == 20    \* if self.counter > 20
RandomLow   == 30    \* random.uniform(30, 80)
RandomHigh  == 80

MaxCalls == 22       \* compute_scores calls with a baseline that the model follows

\* the baselines a detector is given
DetBaselines ==
    {BaselineProfile(R(100), R(2), Rat(1, 2)),
     BaselineProfile(R(0),   R(2), Rat(1, 2)),
     BaselineProfile(R(100), R(2), R(0))}

\* the feature vectors scored
DetFeatures ==
    {FeatureVector(R(250), R(1), 0, R(0), R(30)),
     FeatureVector(R(250), R(3), 1, R(0), R(30)),
     FeatureVector(R(140), R(3), 0, R(0), R(30)),
     FeatureVector(R(100), R(0), 2, R(0), R(0))}

\* the outcomes of random.random() and random.uniform(30, 80): the branch taken
\* and a sample of the interval
RandomDraws ==
    {[rule |-> r, value |-> R(v)] :
        r \in {"idle_burst", "focus_instability", "behavioral_drift"},
        v \in {RandomLow, (RandomLow + RandomHigh) \div 2, RandomHigh}}

ZeroScores == AnomalyScores(R(0), R(0), R(0), R(0))

Returned(scores) == [outcome |-> "returned", scores |-> scores]
ZeroDivisionError == [outcome |-> "ZeroDivisionError", scores |-> ZeroScores]

\* min(70.0, max(0.0, raw))
\* a lower bound only
clip_uncapped(raw) == RMax(R(0), raw)

clip70(raw) == RMin(R(ScoreCap), RMax(R(0), raw))

\* Rule A: None when the division raises
idle_burst(features, b) ==
    LET idle_threshold == RMul(b.avg_idle_duration, Rat(12, 10))
    IN  IF RGt(features.avg_idle_duration, idle_threshold)
        THEN IF RGt(features.avg_typing_speed, RMul(Rat(13, 10), b.avg_typing_speed))
             THEN IF RIsZero(b.avg_typing_speed)
                  THEN None
                  ELSE LET ratio == RDiv(features.avg_typing_speed, b.avg_typing_speed)
                           raw   == RMul(RSub(ratio, Rat(13, 10)), R(100))
                       IN  Some(clip70(raw))
             ELSE Some(R(0))
        ELSE Some(R(0))

\* Rule B: None when the division raises
focus_instability(features, b) ==
    LET window_duration == RSub(features.window_end, features.window_start)
        focus_rate == IF RGt(window_duration, R(0))
                      THEN RMul(R(features.focus_loss_count),
                                RDiv(R(60), window_duration))
                      ELSE R(0)
    IN  IF RGt(focus_rate, RMul(Rat(15, 10), b.avg_focus_rate))
        THEN IF RIsZero(b.avg_focus_rate)
             THEN None
             ELSE LET ratio == RDiv(focus_rate, b.avg_focus_rate)
                      raw   == RMul(RSub(ratio, Rat(15, 10)), R(100))
                  IN  Some(clip70(raw))
        ELSE Some(R(0))

\* Rule C
behavioral_drift(features, b) ==
    IF RGt(b.avg_typing_speed, R(0))
    THEN LET deviation_pct ==
                 RDiv(RAbs(RSub(features.avg_typing_speed, b.avg_typing_speed)),
                      b.avg_typing_speed)
         IN  IF RGt(deviation_pct, Rat(3, 10))
             THEN clip70(RMul(RSub(deviation_pct, Rat(3, 10)), R(200)))
             ELSE R(0)
    ELSE R(0)

\* an overall that is the idle-burst score alone
overall_idle_only(ib, fi, bd) == ib

\* max(scores.idle_burst, scores.focus_instability, scores.behavioral_drift)
overall(ib, fi, bd) == RMax(RMax(ib, fi), bd)

\* the detection rules of compute_scores, in statement order
rule_scores(features, b) ==
    LET ib == idle_burst(features, b)
        fi == focus_instability(features, b)
        bd == behavioral_drift(features, b)
    IN  IF ib = None \/ fi = None
        THEN ZeroDivisionError
        ELSE Returned(AnomalyScores(Get(ib), Get(fi), bd, overall(Get(ib), Get(fi), bd)))

\* the branch of compute_scores taken when self.counter > 20
random_scores(draw) ==
    Returned([ZeroScores EXCEPT ![draw.rule] = draw.value, !.overall = draw.value])

\* compute_scores counting the call before it tests for a baseline
compute_scores_counts_first(features) ==
    IF det_baseline = None
    THEN {[counter |-> det_counter + 1, result |-> Returned(ZeroScores)]}
    ELSE IF det_counter + 1 > RandomAfter
    THEN {[counter |-> det_counter + 1, result |-> random_scores(draw)] :
             draw \in RandomDraws}
    ELSE {[counter |-> det_counter + 1,
           result  |-> rule_scores(features, Get(det_baseline))]}

\* compute_scores(features): the outcomes the call can have, each the value it
\* returns or the error it raises, with the counter after it
compute_scores_on(baseline, counter, features) ==
    IF baseline = None
    THEN {[counter |-> counter, result |-> Returned(ZeroScores)]}
    ELSE IF counter + 1 > RandomAfter
    THEN {[counter |-> counter + 1, result |-> random_scores(draw)] :
             draw \in RandomDraws}
    ELSE {[counter |-> counter + 1,
           result  |-> rule_scores(features, Get(baseline))]}

\* compute_scores(features) on the detector's own baseline and counter
compute_scores(features) == compute_scores_on(det_baseline, det_counter, features)

\* a call of compute_scores(features)
DetComputeScores ==
    \E f \in DetFeatures, remember \in BOOLEAN :
        \E out \in compute_scores(f) :
            /\ det_counter < MaxCalls
            /\ det_counter' = out.counter
            /\ det_call'    = Some([features |-> f, baseline |-> det_baseline,
                                    result |-> out.result])
            /\ det_seen'    = IF remember THEN det_call ELSE det_seen
            /\ UNCHANGED det_baseline

\* detector.baseline = value
DetSetBaseline ==
    \E b \in DetBaselines :
        /\ det_baseline' = Some(b)
        /\ UNCHANGED <<det_counter, det_call, det_seen>>

\* ActivityShiftDetector(baseline)
DetInit ==
    /\ det_baseline \in {None} \cup {Some(b) : b \in DetBaselines}
    /\ det_counter  = 0
    /\ det_call     = None
    /\ det_seen     = None

-----------------------------------------------------------------------------
(* RiskEngine *)

MaxRiskCalls == 6    \* compute_risk calls since construction or reset

\* smoothing_window values a RiskEngine is constructed with
SmoothingWindows == {1, 5}

\* the anomaly scores aggregated: raw risks 10, 20, 30, 40, 50, 60
RiskInputs ==
    {AnomalyScores(R(25),  R(0),   R(0),   R(25)),
     AnomalyScores(R(50),  R(0),   R(0),   R(50)),
     AnomalyScores(R(0),   R(100), R(0),   R(100)),
     AnomalyScores(R(100), R(0),   R(0),   R(100)),
     AnomalyScores(R(50),  R(100), R(0),   R(100)),
     AnomalyScores(R(0),   R(100), R(100), R(100))}

weight_idle_burst        == Rat(4, 10)
weight_focus_instability == Rat(3, 10)
weight_behavioral_drift  == Rat(3, 10)

\* a weighted sum in which the overall score takes part
raw_risk_of_with_overall(anomaly_scores) ==
    LET raw_risk ==
            RAdd(RAdd(RAdd(RMul(weight_idle_burst, anomaly_scores.idle_burst),
                           RMul(weight_focus_instability, anomaly_scores.focus_instability)),
                      RMul(weight_behavioral_drift, anomaly_scores.behavioral_drift)),
                 RMul(Rat(1, 10), anomaly_scores.overall))
    IN  RMax(R(0), RMin(R(100), raw_risk))

\* the clipped weighted sum of compute_risk
raw_risk_of(anomaly_scores) ==
    LET raw_risk ==
            RAdd(RAdd(RMul(weight_idle_burst, anomaly_scores.idle_burst),
                      RMul(weight_focus_instability, anomaly_scores.focus_instability)),
                 RMul(weight_behavioral_drift, anomaly_scores.behavioral_drift))
    IN  RMax(R(0), RMin(R(100), raw_risk))

\* an append that never evicts
deque_append_unbounded(dq, x, maxlen) == Append(dq, x)

\* deque(maxlen=maxlen).append(x)
deque_append(dq, x, maxlen) ==
    IF maxlen = 0 THEN dq
    ELSE IF Len(dq) >= maxlen THEN Append(Tail(dq), x)
    ELSE Append(dq, x)

\* sum(history) / len(history), or raw_risk for an empty history
smoothed_of(history, raw_risk) ==
    IF Len(history) > 0 THEN RDiv(RSum(history), R(Len(history))) ELSE raw_risk

\* compute_risk(anomaly_scores)
compute_risk(anomaly_scores) ==
    LET raw_risk == raw_risk_of(anomaly_scores)
        history  == deque_append(risk_history, raw_risk, risk_window)
    IN  /\ risk_last_raw'      = raw_risk
        /\ risk_history'       = history
        /\ risk_last_smoothed' = smoothed_of(history, raw_risk)

\* a call of compute_risk(anomaly_scores); it returns the smoothed risk
RiskComputeRisk ==
    \E a \in RiskInputs :
        /\ Len(risk_log) < MaxRiskCalls
        /\ compute_risk(a)
        /\ risk_log' = Append(risk_log, raw_risk_of(a))
        /\ risk_ret' = Some(risk_last_smoothed')
        /\ risk_op'  = [op |-> "compute_risk", arg |-> Some(a), discarded |-> risk_op.discarded]
        /\ UNCHANGED risk_window

\* a reset() that zeroes the scalars and keeps the history
risk_reset_keeps_history ==
    /\ risk_history'       = risk_history
    /\ risk_last_raw'      = R(0)
    /\ risk_last_smoothed' = R(0)

MaxClipCalls == 3    \* compute_risk calls on the inputs of ClipInputs

\* anomaly scores whose weighted sum is 200, -20 and 50, each with two values
\* of overall
ClipInputs ==
    {AnomalyScores(R(i[1]), R(i[2]), R(i[3]), R(ov)) :
        i \in {<<200, 200, 200>>, <<-50, 0, 0>>, <<50, 100, 0>>}, ov \in {0, 100}}

\* a call of compute_risk(anomaly_scores) on scores of any size
RiskComputeRiskAny ==
    \E a \in ClipInputs :
        /\ Len(risk_log) < MaxClipCalls
        /\ compute_risk(a)
        /\ risk_log' = Append(risk_log, raw_risk_of(a))
        /\ risk_ret' = Some(risk_last_smoothed')
        /\ risk_op'  = [op |-> "compute_risk", arg |-> Some(a), discarded |-> risk_op.discarded]
        /\ UNCHANGED risk_window

\* reset()
risk_reset ==
    /\ risk_history'       = <<>>
    /\ risk_last_raw'      = R(0)
    /\ risk_last_smoothed' = R(0)

\* a call of reset()
RiskReset ==
    /\ risk_reset
    /\ risk_log' = <<>>
    /\ risk_ret' = None
    /\ risk_op'  = [op |-> "reset", arg |-> None,
                    discarded |-> risk_op.discarded \/ risk_history # <<>>]
    /\ UNCHANGED risk_window

\* RiskEngine(smoothing_window)
RiskInit ==
    /\ risk_window        \in SmoothingWindows
    /\ risk_history       = <<>>
    /\ risk_last_raw      = R(0)
    /\ risk_last_smoothed = R(0)
    /\ risk_log           = <<>>
    /\ risk_ret           = None
    /\ risk_op            = [op |-> "init", arg |-> None, discarded |-> FALSE]

-----------------------------------------------------------------------------
(* FeatureExtractor *)

MaxStamp  == 2       \* event timestamps are 0..MaxStamp
MaxBuffer == 3       \* events buffered at a time that the model follows

\* window_duration values a FeatureExtractor is constructed with
FeWindows == {R(-1), R(0), R(2)}

\* the events of shared.models, by the fields the extractor reads
Event(kind, t, duration, x, y) ==
    [kind |-> kind, timestamp |-> R(t), duration |-> R(duration), x |-> x, y |-> y]

\* the events a producer delivers: key presses and releases, mouse moves along
\* a line (5 pixels per second), focus losses and idle periods of 1 s
Events ==
    UNION {{Event("KEY_PRESS", t, 0, 0, 0),
            Event("KEY_RELEASE", t, 0, 0, 0),
            Event("MOUSE_MOVE", t, 0, 3 * t, 4 * t),
            Event("FOCUS_LOST", t, 0, 0, 0),
            Event("IDLE_PERIOD", t, 1, 0, 0)} : t \in 0..MaxStamp}

\* the current_time arguments of compute_features: omitted, or a time
CurrentTimes == {None} \cup {Some(R(t)) : t \in 0..(MaxStamp + 1)}

\* list.insert(i, x), i counted from 0
InsertAt(buffer, i, x) ==
    SubSeq(buffer, 1, i) \o <<x>> \o SubSeq(buffer, i + 1, Len(buffer))

\* add_event appending blindly
added_append_only(buffer, event) == Append(buffer, event)

\* add_event: the buffer after the call
added(buffer, event) ==
    IF buffer = <<>> \/ RLe(buffer[Len(buffer)].timestamp, event.timestamp)
    THEN Append(buffer, event)
    ELSE LET later == {i \in 1..Len(buffer) : RLt(event.timestamp, buffer[i].timestamp)}
         IN  IF later = {}
             THEN buffer       \* the loop ends without inserting
             ELSE InsertAt(buffer, (CHOOSE i \in later : \A j \in later : i <= j) - 1,
                           event)

\* add_event(event)
add_event(event) == fe_buffer' = added(fe_buffer, event)

\* _prune_buffer that also drops the events at the cutoff itself
RECURSIVE pruned_inclusive(_, _)
pruned_inclusive(buffer, cutoff) ==
    IF buffer # <<>> /\ RLe(buffer[1].timestamp, cutoff)
    THEN pruned_inclusive(Tail(buffer), cutoff)
    ELSE buffer

\* _prune_buffer: the buffer after the call
RECURSIVE pruned(_, _)
pruned(buffer, cutoff) ==
    IF buffer # <<>> /\ RLt(buffer[1].timestamp, cutoff)
    THEN pruned(Tail(buffer), cutoff)
    ELSE buffer

\* math.sqrt, exact on the squares the model's mouse positions give
Sqrt(n) == CHOOSE r \in 0..n : r * r = n

OfKind(window_events, kind) == SelectSeq(window_events, LAMBDA ev : ev.kind = kind)

\* the feature vector compute_features builds from the window's events
features_of(window_events, current_time, window_duration) ==
    LET window_start == RSub(current_time, window_duration)
        press == OfKind(window_events, "KEY_PRESS")
        idle  == OfKind(window_events, "IDLE_PERIOD")
        lost  == OfKind(window_events, "FOCUS_LOST")
        mouse == OfKind(window_events, "MOUSE_MOVE")
        intervals == [i \in 1..(Len(press) - 1) |->
                         RSub(press[i + 1].timestamp, press[i].timestamp)]
        window_len == RSub(current_time, window_start)
        distances == [i \in 1..(Len(mouse) - 1) |->
                         LET dx == mouse[i + 1].x - mouse[i].x
                             dy == mouse[i + 1].y - mouse[i].y
                         IN  R(Sqrt(dx * dx + dy * dy))]
        time_span == RSub(mouse[Len(mouse)].timestamp, mouse[1].timestamp)
    IN  [avg_typing_speed   |->
             IF Len(press) >= 2 /\ RGt(window_len, R(0))
             THEN RMul(RDiv(R(Len(press)), window_len), R(60))
             ELSE R(0),
         inter_key_interval |->
             IF Len(press) >= 2
             THEN RDiv(RSum(intervals), R(Len(intervals)))
             ELSE R(0),
         avg_idle_duration  |->
             IF Len(idle) > 0
             THEN RDiv(RSum([i \in 1..Len(idle) |-> idle[i].duration]), R(Len(idle)))
             ELSE R(0),
         focus_loss_count   |-> Len(lost),
         avg_mouse_speed    |->
             IF Len(mouse) >= 2
             THEN (IF RGt(time_span, R(0))
                   THEN RDiv(RSum(distances), time_span)
                   ELSE R(0))
             ELSE R(0),
         window_start       |-> window_start,
         window_end         |-> current_time]

\* a default current_time taken from the first buffered event
effective_time_first(buffer, current_time) ==
    IF current_time # None THEN Get(current_time)
    ELSE IF buffer # <<>> THEN buffer[1].timestamp
    ELSE R(0)

\* the current_time compute_features uses: the argument, or the last buffered
\* event's timestamp, or 0 for an empty buffer
effective_time(buffer, current_time) ==
    IF current_time # None THEN Get(current_time)
    ELSE IF buffer # <<>> THEN buffer[Len(buffer)].timestamp
    ELSE R(0)

\* compute_features(current_time): the buffer after the call and the vector returned
compute_features(buffer, current_time, window_duration) ==
    LET t    == effective_time(buffer, current_time)
        kept == pruned(buffer, RSub(t, window_duration))
    IN  [buffer |-> kept, features |-> features_of(kept, t, window_duration)]

\* a call of add_event(event)
FeAddEvent ==
    \E e \in Events :
        /\ Len(fe_buffer) < MaxBuffer
        /\ add_event(e)
        /\ fe_op' = [op |-> "add_event", event |-> Some(e), arg |-> None, last |-> None,
                     at |-> None, ret |-> None, pruned |-> 0]
        /\ UNCHANGED fe_window

\* a call of compute_features(current_time)
FeComputeFeatures ==
    \E t \in CurrentTimes :
        LET out == compute_features(fe_buffer, t, fe_window)
        IN  /\ fe_buffer' = out.buffer
            /\ fe_op' = [op |-> "compute_features", event |-> None,
                         arg |-> t,
                         last |-> IF fe_buffer = <<>> THEN None
                                  ELSE Some(fe_buffer[Len(fe_buffer)].timestamp),
                         at |-> Some(effective_time(fe_buffer, t)),
                         ret |-> Some(out.features),
                         pruned |-> Len(fe_buffer) - Len(out.buffer)]
            /\ UNCHANGED fe_window

\* FeatureExtractor(window_duration)
FeInit ==
    /\ fe_window \in FeWindows
    /\ fe_buffer = <<>>
    /\ fe_op     = [op |-> "init", event |-> None, arg |-> None, last |-> None,
                    at |-> None, ret |-> None,
                    pruned |-> 0]

-----------------------------------------------------------------------------
(* MockInteractionListener: the generator thread, the queue and its callers *)

MaxQueued == 4       \* events the generator thread is let to have queued

\* Queue() is constructed without maxsize: 0, which queue.Queue reads as no limit
queue_maxsize == 0

\* whether put(event) proceeds on a queue holding n events, not blocking
put_proceeds(n) == queue_maxsize <= 0 \/ n < queue_maxsize

\* what one iteration of the generator loop enqueues after its sleep: an
\* idle event, a key press and its release, a mouse move, or a focus loss and
\* the focus gain, after an IDLE_PERIOD event when the gap was long
Emissions ==
    LET chosen == {<<"IDLE_PERIOD">>, <<"KEY_PRESS", "KEY_RELEASE">>, <<"MOUSE_MOVE">>,
                   <<"FOCUS_LOST", "FOCUS_GAINED">>}
    IN  chosen \cup {<<"IDLE_PERIOD">> \o e : e \in chosen}

\* start(): nothing when already running, else the thread is started
LisStart ==
    /\ lis_caller = "idle"
    /\ IF lis_running
       THEN UNCHANGED <<lis_running, lis_thread>>
       ELSE /\ lis_running' = TRUE
            /\ lis_thread'  = "test"
    /\ lis_caller' = "started"
    /\ UNCHANGED lis_queue

\* the generator thread evaluates `while self._running` and goes to sleep, or ends
GenTest ==
    /\ lis_thread = "test"
    /\ lis_thread' = IF lis_running THEN "sleeping" ELSE "done"
    /\ UNCHANGED <<lis_queue, lis_running, lis_caller>>

\* the generator thread wakes and enqueues the events of this iteration; it
\* does not look at self._running before the next while test
GenEmit ==
    /\ lis_thread = "sleeping"
    /\ \E events \in Emissions :
         /\ Len(lis_queue) + Len(events) <= MaxQueued
         /\ \A n \in Len(lis_queue)..(Len(lis_queue) + Len(events) - 1) : put_proceeds(n)
         /\ lis_queue' = lis_queue \o events
    /\ lis_thread' = "test"
    /\ UNCHANGED <<lis_running, lis_caller>>

\* get_events(timeout): takes what is queued
LisGetEvents ==
    /\ lis_caller = "started"
    /\ lis_queue # <<>>
    /\ lis_queue' = <<>>
    /\ UNCHANGED <<lis_running, lis_thread, lis_caller>>

\* stop(), first statement: self._running = False
LisStop ==
    /\ lis_caller = "started"
    /\ lis_running' = FALSE
    /\ lis_caller'  = "joining"
    /\ UNCHANGED <<lis_queue, lis_thread>>

\* stop(): self._thread.join(timeout=1.0) returns, the thread having ended or,
\* while it sleeps, the second having passed
LisJoin ==
    /\ lis_caller = "joining"
    /\ lis_thread \in {"done", "sleeping"}
    /\ lis_caller' = "draining"
    /\ UNCHANGED <<lis_queue, lis_running, lis_thread>>

\* stop(): one pass of `while not self._queue.empty(): get_nowait()`
LisDrain ==
    /\ lis_caller = "draining"
    /\ lis_queue # <<>>
    /\ lis_queue' = Tail(lis_queue)
    /\ UNCHANGED <<lis_running, lis_thread, lis_caller>>

\* stop() returns when it finds the queue empty
LisStopReturn ==
    /\ lis_caller = "draining"
    /\ lis_queue = <<>>
    /\ lis_caller' = "stopped"
    /\ UNCHANGED <<lis_queue, lis_running, lis_thread>>

\* MockInteractionListener(...)
LisInit ==
    /\ lis_queue   = <<>>
    /\ lis_running = FALSE
    /\ lis_thread  = "none"
    /\ lis_caller  = "idle"

\* the listener when no listener runs
LisIdle == LisInit

-----------------------------------------------------------------------------
(* run_simulation: the main loop of main.py *)

MaxCycles == 5       \* cycles of the loop
Epoch     == 1000    \* the wall clock when the loop is entered

\* a fifth of the send interval
risk_send_interval_short == 10 \div 5

risk_send_interval == 10

\* seconds of wall clock from one cycle's time.time() to the next: the waits of
\* get_events(timeout=1.0), requests.post(timeout=2.0) and time.sleep(2.0), or
\* a long suspension
Advances == {5, 100}

\* what listener.get_events drains in a cycle that reads the clock at now
Batches(now) ==
    {<<>>,
     <<Event("KEY_PRESS", now - 4, 0, 0, 0), Event("KEY_PRESS", now - 3, 0, 0, 0)>>,
     <<Event("IDLE_PERIOD", now, 4, 0, 0), Event("FOCUS_LOST", now, 0, 0, 0),
       Event("FOCUS_GAINED", now + 3, 0, 0, 0)>>}

\* the outcomes of requests.post: a status code, or None for an exception
PostOutcomes == {Some(200), Some(503), None}

\* for event in events: extractor.add_event(event)
RECURSIVE Ingest(_, _)
Ingest(buffer, events) ==
    IF events = <<>> THEN buffer
    ELSE Ingest(added(buffer, Head(events)), Tail(events))

RiskData(timestamp, risk_score, anomaly_scores) ==
    [timestamp |-> timestamp, risk_score |-> risk_score, anomaly_scores |-> anomaly_scores]

\* the pipeline state: event buffer, calibrator, detector, risk engine
PipelineState ==
    <<fe_buffer, cal_history, cal_baseline, cal_start, det_baseline, det_counter,
      risk_history, risk_last_raw, risk_last_smoothed>>

\* a publish whose failure resets the risk engine
publish_resets_on_failure(outcome) ==
    /\ main_last_send' = IF outcome = Some(200) THEN Get(main_pending).timestamp
                         ELSE main_last_send
    /\ IF outcome = Some(200)
       THEN UNCHANGED <<risk_history, risk_last_raw, risk_last_smoothed>>
       ELSE risk_reset
    /\ UNCHANGED <<fe_buffer, cal_history, cal_baseline, cal_start, det_baseline,
                   det_counter>>

\* the try block around requests.post: only a 200 response advances
\* last_risk_send_time; another status or an exception is printed
publish(outcome) ==
    /\ main_last_send' = IF outcome = Some(200) THEN Get(main_pending).timestamp
                         ELSE main_last_send
    /\ UNCHANGED <<fe_buffer, cal_history, cal_baseline, cal_start, det_baseline,
                   det_counter, risk_history, risk_last_raw, risk_last_smoothed>>

\* a detector baseline set to the default profile before calibration ends
assign_baseline_default(calibrated, current) ==
    IF current = None THEN Some(DefaultProfile) ELSE current

\* step 4: detector.baseline = baseline_builder.baseline, once calibrated and
\* while the detector has none
assign_baseline(calibrated, current) ==
    IF calibrated # None /\ current = None THEN calibrated ELSE current

\* steps 1 to 5 of a cycle, up to the test of the send interval
MainCycle ==
    /\ main_pc = "cycle"
    /\ main_cycles < MaxCycles
    /\ \E dt \in Advances :
         \E events \in Batches(main_now + dt) :
           LET now      == main_now + dt
               out      == compute_features(Ingest(fe_buffer, events), None, fe_window)
               features == out.features
           IN  /\ main_now' = now
               /\ fe_buffer' = out.buffer
               /\ update(features, features.window_end)
               /\ det_baseline' = assign_baseline(cal_baseline', det_baseline)
               /\ main_log' = Append(main_log, [at |-> features.window_end,
                                                buffered |-> Len(out.buffer),
                                                calibrated |-> cal_baseline' # None])
               /\ main_first' = IF main_first = None /\ events # <<>>
                                THEN Some(events[1].timestamp) ELSE main_first
               /\ IF det_baseline' = None
                  THEN /\ UNCHANGED <<det_counter, risk_history, risk_last_raw,
                                      risk_last_smoothed>>
                       /\ main_scored' = None
                       /\ main_pending' = None
                       /\ main_pc' = "cycle"
                  ELSE \E scored \in compute_scores_on(det_baseline', det_counter, features) :
                         /\ det_counter' = scored.counter
                         /\ IF scored.result.outcome = "ZeroDivisionError"
                            THEN \* not caught by the loop: run_simulation ends
                                 /\ UNCHANGED <<risk_history, risk_last_raw,
                                                risk_last_smoothed>>
                                 /\ main_scored' = None
                                 /\ main_pending' = None
                                 /\ main_pc' = "crashed"
                            ELSE /\ compute_risk(scored.result.scores)
                                 /\ main_scored' =
                                        Some([anomaly_scores |-> scored.result.scores,
                                              risk_score |-> risk_last_smoothed'])
                                 /\ IF now - main_last_send >= risk_send_interval
                                    THEN /\ main_pending' =
                                                Some(RiskData(now, risk_last_smoothed',
                                                              scored.result.scores))
                                         /\ main_pc' = "publish"
                                    ELSE /\ main_pending' = None
                                         /\ main_pc' = "cycle"
    /\ main_cycles' = main_cycles + 1
    /\ main_op' = [op |-> "cycle", outcome |-> None]
    /\ main_snapshot' = PipelineState'
    /\ main_assigned' = IF det_baseline' # det_baseline THEN main_assigned + 1
                        ELSE main_assigned
    /\ UNCHANGED <<main_sent, main_last_send, cal_duration, cal_log, cal_op, det_call, det_seen,
                   risk_window, risk_log, risk_ret, risk_op, fe_window, fe_op>>

\* the POST of the payload and what follows it in the cycle
MainPublish ==
    /\ main_pc = "publish"
    /\ \E outcome \in PostOutcomes :
         /\ publish(outcome)
         /\ main_op' = [op |-> "publish", outcome |-> outcome]
         /\ main_sent' = IF outcome = Some(200) THEN Append(main_sent, Get(main_pending))
                         ELSE main_sent
    /\ main_pending' = None
    /\ main_pc' = "cycle"
    /\ UNCHANGED <<main_now, main_cycles, main_snapshot, main_log, main_scored,
                   main_assigned, main_first, cal_duration, cal_log, cal_op,
                   det_call, det_seen, risk_window, risk_log, risk_ret, risk_op,
                   fe_window, fe_op>>

\* the loop variables when no loop runs
MainIdle ==
    /\ main_pc        = "cycle"
    /\ main_now       = Epoch
    /\ main_last_send = 0
    /\ main_pending   = None
    /\ main_cycles    = 0
    /\ main_op        = [op |-> "init", outcome |-> None]
    /\ main_snapshot  = <<>>
    /\ main_log       = <<>>
    /\ main_scored    = None
    /\ main_assigned  = 0
    /\ main_sent      = <<>>
    /\ main_first     = None

-----------------------------------------------------------------------------
(* Specifications: each component on its own, the others idle *)

CalIdle ==
    /\ cal_duration = R(2)
    /\ cal_history  = <<>>
    /\ cal_baseline = None
    /\ cal_start    = None
    /\ cal_log      = <<>>
    /\ cal_op       = [op |-> "init", features |-> None, at |-> None,
                       history |-> <<>>, baseline |-> None, start |-> None]

DetIdle ==
    /\ det_baseline = None
    /\ det_counter  = 0
    /\ det_call     = None
    /\ det_seen     = None

RiskIdle ==
    /\ risk_window        = 5
    /\ risk_history       = <<>>
    /\ risk_last_raw      = R(0)
    /\ risk_last_smoothed = R(0)
    /\ risk_log           = <<>>
    /\ risk_ret           = None
    /\ risk_op            = [op |-> "init", arg |-> None, discarded |-> FALSE]

FeIdle ==
    /\ fe_window = R(30)
    /\ fe_buffer = <<>>
    /\ fe_op     = [op |-> "init", event |-> None, arg |-> None, last |-> None,
                    at |-> None, ret |-> None,
                    pruned |-> 0]

\* the calibrator under any sequence of update, start_calibration and reset calls
InitCalibrator == CalInit /\ DetIdle /\ RiskIdle /\ FeIdle /\ MainIdle /\ LisIdle
NextCalibrator ==
    \/ CalUpdate /\ UNCHANGED <<detVars, riskVars, feVars, mainVars, lisVars>>
    \/ CalStart  /\ UNCHANGED <<detVars, riskVars, feVars, mainVars, lisVars>>
    \/ CalReset  /\ UNCHANGED <<detVars, riskVars, feVars, mainVars, lisVars>>
SpecCalibrator == InitCalibrator /\ [][NextCalibrator]_vars

\* the detector under any sequence of compute_scores calls and baseline assignments
InitDetector == DetInit /\ CalIdle /\ RiskIdle /\ FeIdle /\ MainIdle /\ LisIdle
NextDetector ==
    \/ DetComputeScores /\ UNCHANGED <<calVars, riskVars, feVars, mainVars, lisVars>>
    \/ DetSetBaseline   /\ UNCHANGED <<calVars, riskVars, feVars, mainVars, lisVars>>
SpecDetector == InitDetector /\ [][NextDetector]_vars

\* the risk engine under any sequence of compute_risk and reset calls
InitRisk == RiskInit /\ CalIdle /\ DetIdle /\ FeIdle /\ MainIdle /\ LisIdle
NextRisk ==
    \/ RiskComputeRisk /\ UNCHANGED <<calVars, detVars, feVars, mainVars, lisVars>>
    \/ RiskReset       /\ UNCHANGED <<calVars, detVars, feVars, mainVars, lisVars>>
SpecRisk == InitRisk /\ [][NextRisk]_vars

\* the risk engine on anomaly scores that make the clip act
InitRiskAny == RiskInit /\ CalIdle /\ DetIdle /\ FeIdle /\ MainIdle /\ LisIdle
NextRiskAny ==
    \/ RiskComputeRiskAny /\ UNCHANGED <<calVars, detVars, feVars, mainVars, lisVars>>
    \/ RiskReset          /\ UNCHANGED <<calVars, detVars, feVars, mainVars, lisVars>>
SpecRiskAny == InitRiskAny /\ [][NextRiskAny]_vars

\* the extractor under any sequence of add_event and compute_features calls
InitExtractor == FeInit /\ CalIdle /\ DetIdle /\ RiskIdle /\ MainIdle /\ LisIdle
NextExtractor ==
    \/ FeAddEvent        /\ UNCHANGED <<calVars, detVars, riskVars, mainVars, lisVars>>
    \/ FeComputeFeatures /\ UNCHANGED <<calVars, detVars, riskVars, mainVars, lisVars>>
SpecExtractor == InitExtractor /\ [][NextExtractor]_vars

\* step 5 of a cycle: anomaly_scores = detector.compute_scores(features) and
\* risk_engine.compute_risk(anomaly_scores); a ZeroDivisionError leaves the
\* risk engine as it was
ScoreAndAggregate ==
    \E f \in DetFeatures :
        \E out \in compute_scores(f) :
            /\ det_counter < MaxCalls
            /\ det_counter' = out.counter
            /\ det_call'    = Some([features |-> f, baseline |-> det_baseline,
                                    result |-> out.result])
            /\ IF out.result.outcome = "returned"
               THEN /\ compute_risk(out.result.scores)
                    /\ risk_ret' = Some(risk_last_smoothed')
                    /\ risk_op'  = [op |-> "compute_risk", arg |-> Some(out.result.scores),
                                    discarded |-> risk_op.discarded]
               ELSE UNCHANGED <<risk_history, risk_last_raw, risk_last_smoothed,
                               risk_ret, risk_op>>
            /\ UNCHANGED <<det_baseline, det_seen, risk_window, risk_log>>

\* the detector feeding the risk engine, call after call
InitScoring == DetInit /\ RiskInit /\ CalIdle /\ FeIdle /\ MainIdle /\ LisIdle
NextScoring == ScoreAndAggregate /\ UNCHANGED <<calVars, feVars, mainVars, lisVars>>
SpecScoring == InitScoring /\ [][NextScoring]_vars

\* the listener, its generator thread and the thread that starts, reads and
\* stops it, in any interleaving
InitListener == LisInit /\ CalIdle /\ DetIdle /\ RiskIdle /\ FeIdle /\ MainIdle
NextListener ==
    \/ LisStart      /\ UNCHANGED <<calVars, detVars, riskVars, feVars, mainVars>>
    \/ GenTest       /\ UNCHANGED <<calVars, detVars, riskVars, feVars, mainVars>>
    \/ GenEmit       /\ UNCHANGED <<calVars, detVars, riskVars, feVars, mainVars>>
    \/ LisGetEvents  /\ UNCHANGED <<calVars, detVars, riskVars, feVars, mainVars>>
    \/ LisStop       /\ UNCHANGED <<calVars, detVars, riskVars, feVars, mainVars>>
    \/ LisJoin       /\ UNCHANGED <<calVars, detVars, riskVars, feVars, mainVars>>
    \/ LisDrain      /\ UNCHANGED <<calVars, detVars, riskVars, feVars, mainVars>>
    \/ LisStopReturn /\ UNCHANGED <<calVars, detVars, riskVars, feVars, mainVars>>
SpecListener == InitListener /\ [][NextListener]_vars

\* the components as run_simulation constructs them, on entry to the loop
MainInit ==
    /\ MainIdle
    /\ fe_window = R(30)
    /\ fe_buffer = <<>>
    /\ fe_op     = [op |-> "init", event |-> None, arg |-> None, last |-> None,
                    at |-> None, ret |-> None,
                    pruned |-> 0]
    /\ cal_duration = R(180)
    /\ cal_history  = <<>>
    /\ cal_baseline = None
    /\ cal_start    = None
    /\ cal_log      = <<>>
    /\ cal_op       = [op |-> "init", features |-> None, at |-> None,
                       history |-> <<>>, baseline |-> None, start |-> None]
    /\ DetIdle
    /\ RiskIdle

\* the main loop driving the four components
InitMain == MainInit /\ LisIdle
NextMain ==
    \/ MainCycle   /\ UNCHANGED lisVars
    \/ MainPublish /\ UNCHANGED lisVars
SpecMain == InitMain /\ [][NextMain]_vars

\* the steps of MainCycle and of MainPublish, told by the loop variables alone
MainCycleStep ==
    /\ main_pc = "cycle"
    /\ main_cycles < MaxCycles
    /\ main_cycles' = main_cycles + 1
    /\ main_pc' \in {"cycle", "publish", "crashed"}
MainPublishStep ==
    /\ main_pc = "publish"
    /\ main_pc' = "cycle"
    /\ main_cycles' = main_cycles

\* the main loop keeps running: a cycle or a POST that can happen does happen
SpecMainFair ==
    /\ SpecMain
    /\ WF_<<main_pc, main_cycles>>(MainCycleStep)
    /\ WF_<<main_pc, main_cycles>>(MainPublishStep)

-----------------------------------------------------------------------------
(* Claims about BaselineBuilder, checked under SpecCalibrator *)

\* the vectors of the logged update calls made within the calibration duration
\* of the start s
WithinDuration(log, s) ==
    LET keep(e) == RLe(RSub(e.at, s), cal_duration)
        kept    == SelectSeq(log, keep)
    IN  [i \in 1..Len(kept) |-> kept[i].features]

\* C1: once the builder is calibrated, an update call, whatever its features
\* and its time, leaves the baseline, the feature history and the calibration
\* start as they were.
C1_UpdateAfterFreezeChangesNothing ==
    (cal_op.op = "update" /\ cal_op.baseline # None) =>
        /\ cal_baseline = cal_op.baseline
        /\ cal_history  = cal_op.history
        /\ cal_start    = cal_op.start

\* an update call has been made on a calibrated builder
C1_Witness ==
    /\ RGt(cal_duration, R(0))
    /\ cal_op.op = "update"
    /\ cal_op.baseline # None
    /\ cal_op.baseline # Some(DefaultProfile)

\* C2: the frozen baseline is the one built from exactly the vectors of the
\* earlier update calls with at_time - s <= D; the freezing call is the first
\* with at_time - s > D and its vector is not counted.
C2_BaselineFromEarlierVectorsOnly ==
    is_calibrated =>
        /\ cal_log # <<>>
        /\ cal_start # None
        /\ ~RLe(RSub(cal_log[Len(cal_log)].at, Get(cal_start)), cal_duration)
        /\ \A i \in 1..(Len(cal_log) - 1) :
               RLe(RSub(cal_log[i].at, Get(cal_start)), cal_duration)
        /\ cal_baseline = Some(build_baseline(WithinDuration(cal_log, Get(cal_start))))
        /\ cal_baseline =
               Some(build_baseline([i \in 1..(Len(cal_log) - 1) |-> cal_log[i].features]))

\* D = 2: vectors at t = 0, 1, 2 and then a different vector at t = 3 freeze the
\* baseline of the first three
C2_Witness ==
    /\ is_calibrated
    /\ cal_duration = R(2)
    /\ Len(cal_log) = 4
    /\ \A i \in 1..3 : cal_log[i].at = R(i - 1)
                       /\ cal_log[i].features.avg_typing_speed = R(120)
    /\ cal_log[4].at = R(3)
    /\ cal_log[4].features.avg_typing_speed = R(60)
    /\ Get(cal_baseline).avg_typing_speed = R(120)

\* C3 as stated: a calibrated builder keeps its baseline under update and
\* start_calibration calls, and reset() returns to Uninitialized.  Stated for
\* builders with a positive calibration duration, the case the pipeline runs.
C3_Original ==
    /\ (/\ RGt(cal_duration, R(0))
        /\ cal_op.baseline # None
        /\ cal_op.op \in {"update", "start_calibration"})
       => cal_baseline = cal_op.baseline
    /\ cal_op.op = "reset" =>
           (cal_baseline = None /\ cal_start = None /\ cal_history = <<>>)

\* C3 as amended: a calibrated builder keeps its baseline under update calls;
\* start_calibration(t) leaves Calibrated for Calibrating (no baseline, empty
\* history, calibration start t); reset() is the only operation that returns
\* to Uninitialized (no baseline, no calibration start, empty history).
C3_PermanentUnderUpdate ==
    /\ (cal_op.baseline # None /\ cal_op.op = "update") =>
           cal_baseline = cal_op.baseline
    /\ cal_op.op = "start_calibration" =>
           (cal_baseline = None /\ cal_start = cal_op.at /\ cal_history = <<>>)
    /\ cal_op.op = "reset" =>
           (cal_baseline = None /\ cal_start = None /\ cal_history = <<>>)
    /\ (cal_op.start # None /\ cal_start = None) => cal_op.op = "reset"

\* reset() has been called on a calibrated builder
C3_Witness ==
    /\ RGt(cal_duration, R(0))
    /\ cal_op.op = "reset"
    /\ cal_op.baseline # None
    /\ cal_op.start # None

-----------------------------------------------------------------------------
(* Claims about ActivityShiftDetector, checked under SpecDetector *)

\* the last compute_scores call returned scores (it did not raise)
LastReturned == det_call # None /\ Get(det_call).result.outcome = "returned"
LastScores   == Get(det_call).result.scores
LastFeatures == Get(det_call).features
\* the baseline of the last call, when it had one
LastBaseline == Get(Get(det_call).baseline)
LastHadBaseline == det_call # None /\ Get(det_call).baseline # None

Within(x, lo, hi) == RLe(lo, x) /\ RLe(x, hi)

\* C4: compute_scores is a function of (features, baseline): two calls with
\* equal feature vectors and equal baselines have equal results, however many
\* calls preceded either of them.
C4_Deterministic ==
    (/\ det_call # None
     /\ det_seen # None
     /\ Get(det_call).features = Get(det_seen).features
     /\ Get(det_call).baseline = Get(det_seen).baseline)
    => Get(det_call).result = Get(det_seen).result

\* C5: in every AnomalyScores that compute_scores returns, overall is the
\* maximum of idle_burst, focus_instability and behavioral_drift.
C5_OverallIsMax ==
    LastReturned =>
        LET a == LastScores
        IN  /\ a.overall \in {a.idle_burst, a.focus_instability, a.behavioral_drift}
            /\ RLe(a.idle_burst, a.overall)
            /\ RLe(a.focus_instability, a.overall)
            /\ RLe(a.behavioral_drift, a.overall)

\* the rules returned idle_burst 10 and behavioral_drift 20, so overall 20
C5_Witness ==
    /\ LastReturned
    /\ det_counter <= RandomAfter
    /\ LastScores.idle_burst = R(10)
    /\ LastScores.focus_instability = R(0)
    /\ LastScores.behavioral_drift = R(20)
    /\ LastScores.overall = R(20)

\* C6: each of the three rule scores that compute_scores returns lies in
\* [0, 70], for every call of any sequence of calls.
C6_RuleScoresWithinCap ==
    LastReturned =>
        /\ Within(LastScores.idle_burst, R(0), R(ScoreCap))
        /\ Within(LastScores.focus_instability, R(0), R(ScoreCap))
        /\ Within(LastScores.behavioral_drift, R(0), R(ScoreCap))

\* C7: with a baseline whose avg_typing_speed is 0, compute_scores raises no
\* division error and returns behavioral_drift = 0, for every feature vector.
C7_ZeroBaselineSpeed ==
    (LastHadBaseline /\ RIsZero(LastBaseline.avg_typing_speed)) =>
        /\ LastReturned
        /\ LastScores.behavioral_drift = R(0)

\* C8: with a baseline whose avg_focus_rate is 0, compute_scores on a vector
\* with focus_loss_count > 0 and a positive window duration raises no division
\* error and returns focus_instability = 0.
C8_ZeroBaselineFocusRate ==
    (/\ LastHadBaseline
     /\ RIsZero(LastBaseline.avg_focus_rate)
     /\ LastFeatures.focus_loss_count > 0
     /\ RGt(RSub(LastFeatures.window_end, LastFeatures.window_start), R(0)))
    => /\ LastReturned
       /\ LastScores.focus_instability = R(0)

\* clip((|v - b| / b - 0.3) x 200, 0, 70) when |v - b| / b > 0.3, else 0
DriftFormula(v, b) ==
    LET dev == RDiv(RAbs(RSub(v, b)), b)
        raw == RMul(RSub(dev, Rat(3, 10)), R(200))
    IN  IF RGt(dev, Rat(3, 10))
        THEN (IF RLt(raw, R(0)) THEN R(0) ELSE IF RGt(raw, R(70)) THEN R(70) ELSE raw)
        ELSE R(0)

\* C9: for a baseline typing speed b > 0 and a vector whose idle duration does
\* not exceed 1.2 x the baseline idle duration, compute_scores returns
\* idle_burst = 0 and behavioral_drift = DriftFormula(v, b).
C9_DriftWithoutIdleTrigger ==
    (/\ LastHadBaseline
     /\ RGt(LastBaseline.avg_typing_speed, R(0))
     /\ RLe(LastFeatures.avg_idle_duration,
            RMul(Rat(12, 10), LastBaseline.avg_idle_duration)))
    => /\ LastReturned
       /\ LastScores.idle_burst = R(0)
       /\ LastScores.behavioral_drift =
              DriftFormula(LastFeatures.avg_typing_speed, LastBaseline.avg_typing_speed)

-----------------------------------------------------------------------------
(* Claims about RiskEngine, checked under SpecRisk *)

Min(i, j) == IF i < j THEN i ELSE j

Mean(s) == RDiv(RSum(s), R(Len(s)))

Raws(s) == [i \in 1..Len(s) |-> R(s[i])]

\* C10: with smoothing_window k >= 1, after the n-th compute_risk call since
\* construction or reset the history holds the last min(n, k) raw risks in
\* arrival order, never more than k, and the call returned their mean; for
\* k = 5 the raw risks 10, 20, 30, 40, 50 give 30 and a sixth, 60, gives 40.
C10_MovingAverage ==
    (risk_window >= 1 /\ risk_ret # None) =>
        LET n == Len(risk_log)
            m == Min(n, risk_window)
        IN  /\ n >= 1
            /\ Len(risk_history) = m
            /\ risk_history = SubSeq(risk_log, n - m + 1, n)
            /\ Get(risk_ret) = Mean(risk_history)
            /\ (risk_window = 5 /\ risk_log = Raws(<<10, 20, 30, 40, 50>>))
                   => Get(risk_ret) = R(30)
            /\ (risk_window = 5 /\ risk_log = Raws(<<10, 20, 30, 40, 50, 60>>))
                   => (Get(risk_ret) = R(40)
                       /\ risk_history = Raws(<<20, 30, 40, 50, 60>>))

\* k = 5 and the sixth raw risk, 60, has evicted 10
C10_Witness ==
    /\ risk_window = 5
    /\ risk_log = Raws(<<10, 20, 30, 40, 50, 60>>)
    /\ risk_history = Raws(<<20, 30, 40, 50, 60>>)
    /\ risk_ret = Some(R(40))

-----------------------------------------------------------------------------
(* Claims about FeatureExtractor, checked under SpecExtractor *)

LastVector == Get(fe_op.ret)

IsSorted(buffer) ==
    \A i \in 1..(Len(buffer) - 1) : RLe(buffer[i].timestamp, buffer[i + 1].timestamp)

RemoveAt(buffer, i) == SubSeq(buffer, 1, i - 1) \o SubSeq(buffer, i + 1, Len(buffer))

CountKind(buffer, kind) == Cardinality({i \in 1..Len(buffer) : buffer[i].kind = kind})

\* C11: in every FeatureVector that compute_features returns, every numeric
\* feature is non-negative and focus_loss_count is a natural number; typing
\* speed and inter-key interval are 0 when the window holds fewer than 2 key
\* presses, mouse speed is 0 when it holds fewer than 2 mouse moves.
C11_FeaturesInRange ==
    fe_op.ret # None =>
        LET fv == LastVector
        IN  /\ RLe(R(0), fv.avg_typing_speed)
            /\ RLe(R(0), fv.inter_key_interval)
            /\ RLe(R(0), fv.avg_idle_duration)
            /\ RLe(R(0), fv.avg_mouse_speed)
            /\ fv.focus_loss_count \in Nat
            /\ CountKind(fe_buffer, "KEY_PRESS") < 2 =>
                   (fv.avg_typing_speed = R(0) /\ fv.inter_key_interval = R(0))
            /\ CountKind(fe_buffer, "MOUSE_MOVE") < 2 => fv.avg_mouse_speed = R(0)

\* a vector with a positive typing speed and inter-key interval has been
\* returned, from a window of two key presses and a key release
C11_Witness ==
    /\ fe_op.ret # None
    /\ RGt(LastVector.avg_typing_speed, R(0))
    /\ RGt(LastVector.inter_key_interval, R(0))
    /\ CountKind(fe_buffer, "KEY_PRESS") = 2
    /\ CountKind(fe_buffer, "KEY_RELEASE") = 1

\* C12: after every add_event and compute_features call the buffer is sorted
\* by non-decreasing timestamp, and each add_event adds exactly one element:
\* the new buffer is the old one with the event inserted.
C12_SortedInsertion ==
    [][/\ IsSorted(fe_buffer')
       /\ fe_op'.op = "add_event" =>
              /\ Len(fe_buffer') = Len(fe_buffer) + 1
              /\ \E i \in 1..Len(fe_buffer') :
                     /\ fe_buffer'[i] = Get(fe_op'.event)
                     /\ RemoveAt(fe_buffer', i) = fe_buffer]_vars

\* an event older than two buffered events of equal timestamp was inserted in
\* front of them
C12_Witness ==
    /\ fe_op.op = "add_event"
    /\ Len(fe_buffer) = 3
    /\ fe_buffer[1] = Get(fe_op.event)
    /\ RLt(fe_buffer[1].timestamp, fe_buffer[2].timestamp)
    /\ fe_buffer[2].timestamp = fe_buffer[3].timestamp

\* C13: compute_features(t) leaves in the buffer exactly the events buffered
\* before the call with timestamp >= t - window_duration, in their order.
C13_PruneExactlyExpired ==
    [][fe_op'.op = "compute_features" =>
           LET cutoff == RSub(Get(fe_op'.at), fe_window)
           IN  fe_buffer' =
                   SelectSeq(fe_buffer, LAMBDA ev : RLe(cutoff, ev.timestamp))]_vars

\* a call pruned an event and kept another, one of them at the cutoff itself
C13_Witness ==
    /\ fe_op.op = "compute_features"
    /\ RGt(fe_window, R(0))
    /\ fe_op.pruned > 0
    /\ fe_buffer # <<>>
    /\ fe_buffer[1].timestamp = RSub(Get(fe_op.at), fe_window)

-----------------------------------------------------------------------------
(* Further claims about BaselineBuilder, checked under SpecCalibrator *)

\* C14: a BaselineBuilder with calibration_duration <= 0 or a FeatureExtractor
\* with window_duration <= 0 is rejected at construction, so none ever
\* processes a feature vector or an event.
C14_NonPositiveDurationRejected ==
    /\ cal_op.op = "update" => RGt(cal_duration, R(0))
    /\ fe_op.op \in {"add_event", "compute_features"} => RGt(fe_window, R(0))

\* the last operation was the update that froze the baseline
Froze == cal_op.op = "update" /\ cal_op.baseline = None /\ is_calibrated

\* C17: when the calibration duration has elapsed before any vector was
\* recorded, the update call freezes the default profile (150.0, 2.0, 0.5).
C17_DefaultProfileWhenNothingRecorded ==
    (/\ cal_op.op = "update"
     /\ cal_op.baseline = None
     /\ cal_op.history = <<>>
     /\ LET s == IF cal_op.start = None THEN Get(cal_op.at) ELSE Get(cal_op.start)
        IN  RGt(RSub(Get(cal_op.at), s), cal_duration))
    => cal_baseline = Some([avg_typing_speed  |-> R(150),
                            avg_idle_duration |-> R(2),
                            avg_focus_rate    |-> Rat(1, 2)])

\* start_calibration(s) and then a first update later than s + D, with D > 0
C17_Witness ==
    /\ Froze
    /\ RGt(cal_duration, R(0))
    /\ cal_op.history = <<>>
    /\ cal_op.start # None
    /\ cal_log = <<[features |-> Get(cal_op.features), at |-> Get(cal_op.at)]>>
    /\ cal_baseline = Some(DefaultProfile)

\* C19: a freeze with a non-empty history h stores the means of h's typing
\* speeds and idle durations, and (mean of h's focus_loss_count) x 60 / w with
\* w the window duration of h's first vector, or 30 when that is <= 0.
C19_BaselineIsMeanOfHistory ==
    (Froze /\ cal_op.history # <<>>) =>
        LET h  == cal_op.history
            n  == Len(h)
            w0 == RSub(h[1].window_end, h[1].window_start)
            w  == IF RLe(w0, R(0)) THEN R(30) ELSE w0
            b  == Get(cal_baseline)
        IN  /\ b.avg_typing_speed  = Mean([i \in 1..n |-> h[i].avg_typing_speed])
            /\ b.avg_idle_duration = Mean([i \in 1..n |-> h[i].avg_idle_duration])
            /\ b.avg_focus_rate =
                   RDiv(RMul(Mean([i \in 1..n |-> R(h[i].focus_loss_count)]), R(60)), w)

\* a freeze from a history whose first vector has a 60 s window and whose last
\* has an empty one: means 90 and 3/2, focus rate 1/2 x 60 / 60
C19_Witness ==
    /\ Froze
    /\ Len(cal_op.history) = 2
    /\ RSub(cal_op.history[1].window_end, cal_op.history[1].window_start) = R(60)
    /\ RSub(cal_op.history[2].window_end, cal_op.history[2].window_start) = R(0)
    /\ cal_baseline = Some([avg_typing_speed  |-> R(90),
                            avg_idle_duration |-> Rat(3, 2),
                            avg_focus_rate    |-> Rat(1, 2)])

\* C20: in every reachable state a calibrated builder has an empty feature
\* history.
C20_CalibratedHasNoHistory == is_calibrated => cal_history = <<>>

\* the update that froze the baseline emptied a history of three vectors
C20_Witness ==
    /\ Froze
    /\ Len(cal_op.history) = 3
    /\ cal_history = <<>>

-----------------------------------------------------------------------------
(* Further claims about ActivityShiftDetector, checked under SpecDetector *)

\* C16: without a baseline compute_scores returns all-zero AnomalyScores for
\* every feature vector, raises nothing and leaves the detector's counter (and
\* its baseline) as they were.
C16_NoBaselineAllZero ==
    [][(det_baseline = None /\ DetComputeScores) =>
           /\ det_counter' = det_counter
           /\ det_baseline' = None
           /\ Get(det_call').baseline = None
           /\ Get(det_call').result =
                  [outcome |-> "returned",
                   scores  |-> [idle_burst |-> R(0), focus_instability |-> R(0),
                                behavioral_drift |-> R(0), overall |-> R(0)]]]_vars

\* a vector that the rules would score (typing speed 250 after an idle of 3 s)
\* was scored without a baseline
C16_Witness ==
    /\ det_baseline = None
    /\ det_call # None
    /\ Get(det_call).baseline = None
    /\ Get(det_call).features.avg_typing_speed = R(250)
    /\ Get(det_call).features.avg_idle_duration = R(3)
    /\ Get(det_call).result = Returned(ZeroScores)
    /\ det_counter = 0

-----------------------------------------------------------------------------
(* Further claims about RiskEngine, checked under SpecRisk *)

\* min(100, max(0, 0.4 idle_burst + 0.3 focus_instability + 0.3 behavioral_drift))
ClippedWeightedSum(a) ==
    LET sum == RAdd(RAdd(RMul(Rat(4, 10), a.idle_burst), RMul(Rat(3, 10), a.focus_instability)),
                    RMul(Rat(3, 10), a.behavioral_drift))
    IN  IF RLt(sum, R(0)) THEN R(0) ELSE IF RGt(sum, R(100)) THEN R(100) ELSE sum

\* C18: after a compute_risk call current_risk is the value the call returned
\* and raw_risk is the call's clipped weighted sum; after reset() the history
\* is empty and both are 0; the first compute_risk after a reset returns its
\* own raw value, whatever was in the history before the reset.
C18_ScalarsFollowLastCall ==
    /\ risk_op.op = "compute_risk" =>
           /\ risk_last_smoothed = Get(risk_ret)
           /\ risk_last_raw = ClippedWeightedSum(Get(risk_op.arg))
    /\ risk_op.op = "reset" =>
           /\ risk_history = <<>>
           /\ risk_last_raw = R(0)
           /\ risk_last_smoothed = R(0)
    /\ (risk_op.op = "compute_risk" /\ risk_window >= 1 /\ Len(risk_log) = 1) =>
           /\ Get(risk_ret) = ClippedWeightedSum(Get(risk_op.arg))
           /\ risk_history = <<ClippedWeightedSum(Get(risk_op.arg))>>

\* with window 5, a reset() discarded a non-empty history and the next
\* compute_risk (scores 50, 100, 0) returned its own raw risk 50
C18_Witness ==
    /\ risk_window = 5
    /\ risk_op = [op |-> "compute_risk",
                  arg |-> Some(AnomalyScores(R(50), R(100), R(0), R(100))),
                  discarded |-> TRUE]
    /\ Len(risk_log) = 1
    /\ risk_ret = Some(R(50))
    /\ risk_last_raw = R(50)
    /\ risk_last_smoothed = R(50)

-----------------------------------------------------------------------------
(* Claims about the main loop, checked under SpecMain *)

\* C15: a publish that fails (another status than 200, or an exception) leaves
\* the event buffer, the calibrator, the detector's baseline and the risk
\* history and scalars as they were after the cycle's compute_risk: the
\* calibrator stays calibrated and the risk history keeps its values.
C15_FailedPublishKeepsPipeline ==
    (main_op.op = "publish" /\ main_op.outcome # Some(200)) =>
        /\ PipelineState = main_snapshot
        /\ cal_baseline # None
        /\ det_baseline = cal_baseline
        /\ risk_history # <<>>

\* a POST answered 503 after a cycle that scored a non-zero risk against a
\* baseline calibrated from event time
C15_Witness ==
    /\ main_op = [op |-> "publish", outcome |-> Some(503)]
    /\ PipelineState = main_snapshot
    /\ RGt(risk_last_smoothed, R(0))
    /\ fe_buffer # <<>>
    /\ cal_start # None
    /\ RGt(Get(cal_start), R(0))

-----------------------------------------------------------------------------
(* Claims about the Idle-to-Burst rule, checked under SpecDetector *)

\* clip((speed / baseline speed - 1.3) x 100, 0, 70) when the idle duration
\* exceeds 1.2 x the baseline's and the speed 1.3 x the baseline's, else 0
IdleBurstFormula(f, b) ==
    IF /\ RGt(f.avg_idle_duration, RMul(Rat(12, 10), b.avg_idle_duration))
       /\ RGt(f.avg_typing_speed, RMul(Rat(13, 10), b.avg_typing_speed))
    THEN LET raw == RMul(RSub(RDiv(f.avg_typing_speed, b.avg_typing_speed), Rat(13, 10)),
                         R(100))
         IN  IF RLt(raw, R(0)) THEN R(0) ELSE IF RGt(raw, R(70)) THEN R(70) ELSE raw
    ELSE R(0)

\* C21: the idle_burst that compute_scores returns is positive only when the
\* vector's idle duration exceeds 1.2 x the baseline's and its typing speed
\* exceeds 1.3 x the baseline's; it is then clip((ratio - 1.3) x 100, 0, 70),
\* and 0 otherwise.
C21_IdleBurstRule ==
    (LastReturned /\ LastHadBaseline) =>
        LastScores.idle_burst = IdleBurstFormula(LastFeatures, LastBaseline)

-----------------------------------------------------------------------------
(* Claims about the raw risk, checked under SpecRiskAny *)

\* C22: compute_risk sets the raw risk to
\* clip(0.4 idle_burst + 0.3 focus_instability + 0.3 behavioral_drift, 0, 100),
\* and the smoothed risk to the mean of the raw risks in the history, for every
\* input: the overall field takes no part in either.
C22_RawRiskIsClippedWeightedSum ==
    risk_op.op = "compute_risk" =>
        LET a   == Get(risk_op.arg)
            sum == RAdd(RMul(Rat(4, 10), a.idle_burst),
                        RAdd(RMul(Rat(3, 10), a.focus_instability),
                             RMul(Rat(3, 10), a.behavioral_drift)))
            raw == IF RLt(sum, R(0)) THEN R(0)
                   ELSE IF RGt(sum, R(100)) THEN R(100) ELSE sum
        IN  /\ risk_last_raw = raw
            /\ risk_history # <<>>
            /\ risk_history[Len(risk_history)] = raw
            /\ risk_last_smoothed = Mean(risk_history)
            /\ \A i \in 1..Len(risk_history) : risk_history[i] \in {R(0), R(50), R(100)}

\* with window 5: a weighted sum of -20 stored as 0, then one of 200 stored as
\* 100 although overall was 0; the smoothed risk is their mean
C22_Witness ==
    /\ risk_window = 5
    /\ risk_op.op = "compute_risk"
    /\ Get(risk_op.arg) = AnomalyScores(R(200), R(200), R(200), R(0))
    /\ risk_history = <<R(0), R(100)>>
    /\ risk_last_raw = R(100)
    /\ risk_last_smoothed = R(50)

-----------------------------------------------------------------------------
(* Further claims about FeatureExtractor, checked under SpecExtractor *)

\* the events of the buffer with timestamp in [t - window_duration, t)
InWindow(buffer, t) ==
    SelectSeq(buffer, LAMBDA ev : RLe(RSub(t, fe_window), ev.timestamp) /\ RLt(ev.timestamp, t))

\* C23: the vector compute_features(t) returns is computed from the events
\* with timestamp in [t - window_duration, t) only: an event with timestamp at
\* or after window_end contributes to no feature.
C23_OnlyWindowEventsContribute ==
    (fe_op.op = "compute_features" /\ RGt(fe_window, R(0))) =>
        LET t      == Get(fe_op.at)
            inside == InWindow(fe_buffer, t)
            v      == LastVector
        IN  /\ v.focus_loss_count = CountKind(inside, "FOCUS_LOST")
            /\ (CountKind(inside, "IDLE_PERIOD") = 0 => v.avg_idle_duration = R(0))
            /\ (CountKind(inside, "KEY_PRESS") < 2 => v.avg_typing_speed = R(0))
            /\ (CountKind(inside, "MOUSE_MOVE") < 2 => v.avg_mouse_speed = R(0))

LatestEventSurvives ==
    (/\ fe_op.op = "compute_features"
     /\ fe_op.arg = None
     /\ fe_op.last # None
     /\ RLe(R(0), fe_window))
    => /\ fe_buffer # <<>>
       /\ fe_buffer[Len(fe_buffer)].timestamp = Get(fe_op.last)

-----------------------------------------------------------------------------
(* Further claims about the main loop, checked under SpecMain *)

C26_PublishesAtLeastIntervalApart ==
    /\ \A i \in 2..Len(main_sent) :
           main_sent[i].timestamp - main_sent[i - 1].timestamp >= 10
    /\ (main_op.op = "publish" /\ main_op.outcome = Some(200)) =>
           LET record == main_sent[Len(main_sent)]
           IN  /\ main_scored # None
               /\ record.timestamp = main_now
               /\ record.risk_score = risk_last_smoothed
               /\ record.risk_score = Get(main_scored).risk_score
               /\ record.anomaly_scores = Get(main_scored).anomaly_scores
               /\ main_last_send = record.timestamp

\* a second record published exactly 10 s after the first, a cycle without a
\* publish in between
C26_Witness ==
    /\ main_op = [op |-> "publish", outcome |-> Some(200)]
    /\ Len(main_sent) = 2
    /\ main_sent[2].timestamp - main_sent[1].timestamp = 10
    /\ main_sent[2].timestamp = main_now

\* C28: before the calibrator is calibrated no cycle calls compute_scores or
\* compute_risk or publishes; the detector's baseline is assigned once, in the
\* cycle in which the calibrator becomes calibrated, equals the calibrator's
\* baseline, and never changes afterwards.
C28_ScoringOnlyAfterCalibration ==
    /\ [](/\ det_baseline = cal_baseline
          /\ main_assigned = IF cal_baseline = None THEN 0 ELSE 1
          /\ cal_baseline = None =>
                 /\ det_counter = 0
                 /\ risk_history = <<>>
                 /\ main_scored = None
                 /\ main_pending = None
                 /\ main_sent = <<>>
                 /\ main_last_send = 0
                 /\ main_pc # "publish")
    /\ [][det_baseline # None => det_baseline' = det_baseline]_vars

\* the baseline was frozen from two recorded vectors in the third cycle, and
\* two more cycles scored against it
C28_Witness ==
    /\ main_cycles = 5
    /\ main_assigned = 1
    /\ det_baseline = cal_baseline
    /\ det_baseline # None
    /\ det_counter = 3
    /\ Len(risk_history) = 3
    /\ RGt(Get(cal_start), R(0))

-----------------------------------------------------------------------------
(* Claims about the main loop that need it to keep running, checked under
   SpecMainFair *)

\* a failed publish leaves the send interval elapsed, and a cycle that computes
\* a risk score with the interval elapsed goes on to publish
RetryWhenScored ==
    /\ (main_op.op = "publish" /\ main_op.outcome # Some(200)) =>
           main_now - main_last_send >= 10
    /\ (main_op.op = "cycle" /\ main_scored # None
            /\ main_now - main_last_send >= 10) => main_pc = "publish"

\* C25: after a publish attempt has failed (and while the loop has cycles left
\* to run) a publish is attempted again, so that a store that has become
\* available receives a record.
C25_FailedPublishRetried ==
    (main_op.op = "publish" /\ main_op.outcome # Some(200) /\ main_cycles < MaxCycles)
        ~> (main_pc = "publish")

-----------------------------------------------------------------------------
(* Claims about MockInteractionListener, checked under SpecListener *)

\* C27: the queue between the generator thread and the scoring cycle has a
\* fixed capacity that the number of queued events never exceeds, however
\* slowly the consumer reads. The capacity tried is any number below what the
\* generator thread is let to enqueue here.
C27_QueueBounded == Len(lis_queue) < MaxQueued

\* C29: once stop() has returned the generator thread has ended and the queue
\* is empty, and it stays so.
C29_StoppedMeansQuiet ==
    lis_caller = "stopped" => (lis_thread = "done" /\ lis_queue = <<>>)

-----------------------------------------------------------------------------
(* Claims about the calibration in the main loop, checked under SpecMain *)

\* the cycles in which the calibrator became calibrated
FreezingCycles ==
    {i \in 1..Len(main_log) :
        main_log[i].calibrated /\ (i = 1 \/ ~main_log[i - 1].calibrated)}

\* C31: the cycle that freezes the baseline passes the calibrator a window_end
\* more than calibration_duration (180 s) after the timestamp of the first
\* event ingested; a first cycle without events does not make the next cycle
\* freeze the baseline.
C31_FreezeAfterCalibrationDuration ==
    \A i \in FreezingCycles :
        /\ main_first # None
        /\ RGt(RSub(main_log[i].at, Get(main_first)), cal_duration)
        /\ ~(i = 2 /\ main_log[1].buffered = 0)

-----------------------------------------------------------------------------
(* Claims about the scores aggregated, checked under SpecScoring *)

\* C32: when the risk engine is fed what compute_scores returns, the weighted
\* sum, the raw risk, the smoothed risk and every raw risk in the history lie
\* between 0 and 70, so the clip at 100 never acts.
C32_RiskAtMostScoreCap ==
    /\ Within(risk_last_raw, R(0), R(70))
    /\ Within(risk_last_smoothed, R(0), R(70))
    /\ \A i \in 1..Len(risk_history) : Within(risk_history[i], R(0), R(70))
    /\ risk_op.op = "compute_risk" =>
           LET a   == Get(risk_op.arg)
               sum == RAdd(RMul(Rat(4, 10), a.idle_burst),
                           RAdd(RMul(Rat(3, 10), a.focus_instability),
                                RMul(Rat(3, 10), a.behavioral_drift)))
           IN  /\ Within(sum, R(0), R(70))
               /\ risk_last_raw = sum

\* after the 20th call compute_scores returned idle_burst 80 alone, raw risk
\* 32, while the history still holds a raw risk of 70 from three rules at
\* their cap
C32_Witness ==
    /\ det_counter > 20
    /\ risk_op.op = "compute_risk"
    /\ Get(risk_op.arg).idle_burst = R(80)
    /\ risk_last_raw = R(32)
    /\ \E i \in 1..Len(risk_history) : risk_history[i] = R(70)

=============================================================================
